---- MODULE Spec2Model ----
(***************************************************************************)
(* Model of SBOM_Report.py: the command line workflow main() that resolves *)
(* a Black Duck project and version, optionally requests an SBOM report,   *)
(* downloads the latest report archive, flattens it into the working       *)
(* directory and removes the archive.                                      *)
(*                                                                         *)
(* Spec        : every run of main(), the service's answers being inputs.  *)
(* SpecFlatten : extract_and_flatten() applied to bounded archives.        *)
(***************************************************************************)
EXTENDS Integers, Sequences, FiniteSets, TLC

VARIABLES pc, args, response, project, project_id, version, reports,
          latest_report, sbom_report_file, archiveExists, archiveBody,
          fs, extractResult, requests, log, exitStatus, unhandled

vars == <<pc, args, response, project, project_id, version, reports,
          latest_report, sbom_report_file, archiveExists, archiveBody,
          fs, extractResult, requests, log, exitStatus, unhandled>>

(***************************************************************************)
(* Bounds of the model.                                                    *)
(***************************************************************************)
MaxProjects == 2
MaxVersions == 2
MaxReports == 2
MaxCreatedAt == 2
MaxDepth == 3
MaxEntries == 2

ProjectNames == {"Demo", "DemoApp"}
ProjectIds == {"p1", "p2"}
VersionNames == {"1.0", "2.0"}
VersionIds == {"v1", "v2"}
ReportIds == {"", "r1"}
Names == {"a.json", "b.json", "dir1"}
Contents == {"c1", "c2"}

\* Python's None for a string-valued variable, and a not yet terminated process.
None == "None"
Running == -1
\* A request that ended in a transport error has no HTTP status.
NetErr == 0

SeqsUpTo(S, n) == UNION {[1..k -> S] : k \in 0..n}

(***************************************************************************)
(* The local file system below the destination directory.  A path is the   *)
(* sequence of its components, <<>> is the directory itself; a node is     *)
(* "DIR" or the content of a regular file.                                 *)
(***************************************************************************)
EmptyFs == [p \in {} |-> "DIR"]
RootFs == [p \in {<<>>} |-> "DIR"]

Exists(f, p) == p \in DOMAIN f
IsDir(f, p) == p \in DOMAIN f /\ f[p] = "DIR"
IsFile(f, p) == p \in DOMAIN f /\ f[p] # "DIR"
UpperDirs(p) == {SubSeq(p, 1, k) : k \in 0..(Len(p) - 1)}

\* os.makedirs(extract_to_folder) when the folder does not exist
MakeDest(f) == IF Exists(f, <<>>) THEN f ELSE RootFs

\* An archive entry: the components of its name, whether the name ends in a
\* slash (a directory marker), and the bytes of the member.
Paths == UNION {[1..k -> Names] : k \in 1..MaxDepth}
Entries == [path : Paths, isDir : BOOLEAN, data : Contents]
EntryUniverse == {e \in Entries : e.isDir => e.data = "c1"}
Archives == SeqsUpTo(EntryUniverse, MaxEntries)

\* os.path.basename(file): the text after the last slash
Basename(e) == IF e.isDir THEN "" ELSE e.path[Len(e.path)]

\* zip_ref.extract(file, extract_to_folder) for a file member: creates the
\* missing parent directories, then opens the target for writing.
ZipExtract(f, e) ==
    IF \E q \in UpperDirs(e.path) : IsFile(f, q)
    THEN [ok |-> FALSE, fs |-> f]
    ELSE IF IsDir(f, e.path)
    THEN [ok |-> FALSE, fs |-> f]
    ELSE [ok |-> TRUE,
          fs |-> [p \in DOMAIN f \cup UpperDirs(e.path) \cup {e.path} |->
                    IF p = e.path THEN e.data
                    ELSE IF p \in UpperDirs(e.path) THEN "DIR"
                    ELSE f[p]]]

\* os.rename(src, dst) of a regular file on a POSIX system
OsRename(f, src, dst) ==
    IF src = dst THEN [ok |-> TRUE, fs |-> f]
    ELSE IF IsDir(f, dst) THEN [ok |-> FALSE, fs |-> f]
    ELSE [ok |-> TRUE,
          fs |-> [p \in (DOMAIN f \ {src}) \cup {dst} |->
                    IF p = dst THEN f[src] ELSE f[p]]]

\* The loop over zip_ref.namelist()
RECURSIVE FlattenEntries(_, _, _)
FlattenEntries(f, entries, i) ==
    IF i > Len(entries) THEN [fs |-> f, outcome |-> "ok"]
    ELSE LET e == entries[i]
             file_name == Basename(e)
         IN IF file_name = "" THEN FlattenEntries(f, entries, i + 1)
            ELSE LET x == ZipExtract(f, e)
                 IN IF ~x.ok THEN [fs |-> x.fs, outcome |-> "error"]
                    ELSE LET r == OsRename(x.fs, e.path, <<file_name>>)
                         IN IF ~r.ok THEN [fs |-> r.fs, outcome |-> "error"]
                            ELSE FlattenEntries(r.fs, entries, i + 1)

\* The bytes of a file handed to zipfile.ZipFile
EmptyBody == [kind |-> "empty", entries |-> <<>>]
GarbageBody == [kind |-> "garbage", entries |-> <<>>]
ZipBody(a) == [kind |-> "zip", entries |-> a]

\* extract_and_flatten(zip_file_path): path is None or names a file that
\* exists or not; body is the content of that file.
extract_and_flatten(f, path, exists, body) ==
    LET dest == MakeDest(f)
    IN IF path = None \/ ~exists THEN [fs |-> dest, outcome |-> "error"]
       ELSE IF body.kind # "zip" THEN [fs |-> dest, outcome |-> "badzip"]
       ELSE FlattenEntries(dest, body.entries, 1)


(***************************************************************************)
(* What the service can answer.                                            *)
(***************************************************************************)
Projects == [name : ProjectNames, id : ProjectIds]
Versions == [versionName : VersionNames, id : VersionIds]
\* createdAt = 0 stands for a report without a createdAt field (key '');
\* empty marks a report that is the empty dictionary.
EmptyReport == [id |-> "", createdAt |-> 0, fileName |-> "", empty |-> TRUE]
Reports == [id : ReportIds, createdAt : 0..MaxCreatedAt,
            fileName : {"report.zip"}, empty : {FALSE}] \cup {EmptyReport}

NoProject == [name |-> None, id |-> None]
NoVersion == [id |-> None, versionName |-> None]
NoReport == [id |-> None, createdAt |-> 0, fileName |-> None, empty |-> FALSE]
NoResponse == [status |-> NetErr, items |-> <<>>]

CreateProjectStatuses == {201, 412, NetErr}
CreateReportStatuses == {200, 201, 403, 500, NetErr}
ListStatuses == {200, 404, NetErr}
DownloadStatuses == {200, 404, NetErr}

\* The archives the service hands out in a run of main()
MainArchives ==
    { <<>>,
      <<[path |-> <<"dir1", "a.json">>, isDir |-> FALSE, data |-> "c1"]>>,
      <<[path |-> <<"a.json", "a.json">>, isDir |-> FALSE, data |-> "c1"]>> }
MainBodies == {EmptyBody, GarbageBody} \cup {ZipBody(a) : a \in MainArchives}

\* response.raise_for_status(): raises HTTPError for 4xx and 5xx
RaisesHTTPError(status) == status >= 400 /\ status < 600
\* bool(response): requests.Response is truthy when it is ok
Truthy(status) == status # NetErr /\ status < 400

(***************************************************************************)
(* Pure parts of the resolver and of the discovery step.                   *)
(***************************************************************************)
\* get_project trusting the server side name filter (first candidate)
get_project_first(projects, project_name) ==
    IF projects # <<>>
    THEN [found |-> TRUE, project |-> projects[1]]
    ELSE [found |-> FALSE, project |-> NoProject]

\* get_project: the first candidate whose name equals the query
get_project(projects, project_name) ==
    IF \E i \in 1..Len(projects) : projects[i].name = project_name
    THEN [found |-> TRUE,
          project |-> projects[CHOOSE i \in 1..Len(projects) :
                         /\ projects[i].name = project_name
                         /\ \A j \in 1..(i - 1) : projects[j].name # project_name]]
    ELSE [found |-> FALSE, project |-> NoProject]

\* get_version falling back to the first version when the name is not found
get_version_fallback(versions, version_name) ==
    IF versions = <<>> THEN [found |-> FALSE, error |-> "no_versions", version |-> NoVersion]
    ELSE IF version_name # "" /\ \E i \in 1..Len(versions) : versions[i].versionName = version_name
    THEN [found |-> TRUE, error |-> "",
          version |-> versions[CHOOSE i \in 1..Len(versions) :
                         /\ versions[i].versionName = version_name
                         /\ \A j \in 1..(i - 1) : versions[j].versionName # version_name]]
    ELSE [found |-> TRUE, error |-> "", version |-> versions[1]]

\* get_version defaulting to the last version of the list
get_version_last(versions, version_name) ==
    IF versions = <<>> THEN [found |-> FALSE, error |-> "no_versions", version |-> NoVersion]
    ELSE IF version_name # ""
    THEN IF \E i \in 1..Len(versions) : versions[i].versionName = version_name
         THEN [found |-> TRUE, error |-> "",
               version |-> versions[CHOOSE i \in 1..Len(versions) :
                              /\ versions[i].versionName = version_name
                              /\ \A j \in 1..(i - 1) : versions[j].versionName # version_name]]
         ELSE [found |-> FALSE, error |-> "version_not_found", version |-> NoVersion]
    ELSE [found |-> TRUE, error |-> "", version |-> versions[Len(versions)]]

\* get_version: exact match by versionName, or the first entry when no name
\* is given ("" is the absent --version option)
get_version(versions, version_name) ==
    IF versions = <<>> THEN [found |-> FALSE, error |-> "no_versions", version |-> NoVersion]
    ELSE IF version_name # ""
    THEN IF \E i \in 1..Len(versions) : versions[i].versionName = version_name
         THEN [found |-> TRUE, error |-> "",
               version |-> versions[CHOOSE i \in 1..Len(versions) :
                              /\ versions[i].versionName = version_name
                              /\ \A j \in 1..(i - 1) : versions[j].versionName # version_name]]
         ELSE [found |-> FALSE, error |-> "version_not_found", version |-> NoVersion]
    ELSE [found |-> TRUE, error |-> "", version |-> versions[1]]

\* max(reports, key=lambda report: report.get('createdAt', '')): the first
\* report whose key is maximal
LatestReport(rs) ==
    rs[CHOOSE i \in 1..Len(rs) :
          /\ \A j \in 1..Len(rs) : rs[j].createdAt <= rs[i].createdAt
          /\ \A j \in 1..(i - 1) : rs[j].createdAt < rs[i].createdAt]

Request(kind, vid, status) == [kind |-> kind, version_id |-> vid, status |-> status]

\* sys.exit(1)
SysExit == /\ pc' = "exited"
           /\ exitStatus' = 1
           /\ unhandled' = FALSE

\* an exception nobody catches: traceback, exit status 1
Crash == /\ pc' = "exited"
         /\ exitStatus' = 1
         /\ unhandled' = TRUE

\* main() returns
Finish == /\ pc' = "done"
          /\ exitStatus' = 0
          /\ unhandled' = FALSE

Init ==
    /\ pc = "start"
    /\ args \in [project_name : ProjectNames, create_project : BOOLEAN,
                 version : VersionNames \cup {""}, create_report : BOOLEAN,
                 download_report : BOOLEAN]
    /\ response = NoResponse
    /\ project = NoProject
    /\ project_id = None
    /\ version = NoVersion
    /\ reports = <<>>
    /\ latest_report = NoReport
    /\ sbom_report_file = None
    /\ archiveExists = FALSE
    /\ archiveBody = EmptyBody
    /\ fs = RootFs
    /\ extractResult = None
    /\ requests = <<>>
    /\ log = <<>>
    /\ exitStatus = Running
    /\ unhandled = FALSE

\* connect_blackduck
Connect ==
    /\ pc = "start"
    /\ \E ok \in BOOLEAN :
         IF ok
         THEN /\ log' = Append(log, "info:connected")
              /\ pc' = "connected"
              /\ UNCHANGED <<exitStatus, unhandled>>
         ELSE /\ log' = Append(log, "error:connect")
              /\ SysExit
    /\ UNCHANGED <<args, response, project, project_id, version, reports,
                   latest_report, sbom_report_file, archiveExists, archiveBody,
                   fs, extractResult, requests>>

\* create_project, and the end of main() on that branch
CreateProject ==
    /\ pc = "connected"
    /\ args.create_project
    /\ \E status \in CreateProjectStatuses, hasLink \in BOOLEAN :
         /\ requests' = Append(requests, Request("create_project", "", status))
         /\ response' = [status |-> status, items |-> <<>>]
         /\ IF status = NetErr
            THEN Crash /\ UNCHANGED log
            ELSE IF RaisesHTTPError(status)
            THEN SysExit /\ log' = Append(log, "error:create_project")
            ELSE IF ~hasLink
            THEN Crash /\ UNCHANGED log
            ELSE Finish /\ log' = Append(log, "info:created_project")
    /\ UNCHANGED <<args, project, project_id, version, reports, latest_report,
                   sbom_report_file, archiveExists, archiveBody, fs, extractResult>>

\* get_project as called from main()
GetProject ==
    /\ pc = "connected"
    /\ ~args.create_project
    /\ \E projects \in SeqsUpTo(Projects, MaxProjects) :
         LET r == get_project(projects, args.project_name)
         IN /\ requests' = Append(requests, Request("projects", "", 200))
            /\ response' = [status |-> 200, items |-> projects]
            /\ IF r.found
               THEN /\ project' = r.project
                    /\ project_id' = r.project.id
                    /\ log' = Append(log, "info:found_project")
                    /\ pc' = "got_project"
                    /\ UNCHANGED <<exitStatus, unhandled>>
               ELSE /\ log' = Append(log, "error:project_not_found")
                    /\ SysExit
                    /\ UNCHANGED <<project, project_id>>
    /\ UNCHANGED <<args, version, reports, latest_report, sbom_report_file,
                   archiveExists, archiveBody, fs, extractResult>>

\* get_version as called from main()
GetVersion ==
    /\ pc = "got_project"
    /\ \E versions \in SeqsUpTo(Versions, MaxVersions) :
         LET r == get_version(versions, args.version)
         IN /\ requests' = Append(requests, Request("versions", "", 200))
            /\ response' = [status |-> 200, items |-> versions]
            /\ IF r.found
               THEN /\ version' = [id |-> r.version.id,
                                   versionName |-> r.version.versionName]
                    /\ log' = Append(log, "info:version_id")
                    /\ pc' = "got_version"
                    /\ UNCHANGED <<exitStatus, unhandled>>
               ELSE /\ log' = Append(log, "error:" \o r.error)
                    /\ SysExit
                    /\ UNCHANGED version
    /\ UNCHANGED <<args, project, project_id, reports, latest_report,
                   sbom_report_file, archiveExists, archiveBody, fs, extractResult>>

\* main() has passed "if args.create_report"
AtDownloadBranch ==
    \/ pc = "after_create"
    \/ pc = "got_version" /\ ~args.create_report

\* create_sbom_report as called from main(); its result is not used
CreateReport ==
    /\ pc = "got_version"
    /\ args.create_report
    /\ \E status \in CreateReportStatuses :
         /\ requests' = Append(requests, Request("create_report", version.id, status))
         /\ response' = [status |-> status, items |-> <<>>]
         /\ log' = IF status = NetErr
                   THEN Append(log, "error:create_request")
                   ELSE IF RaisesHTTPError(status)
                   THEN IF Truthy(status)
                        THEN log \o <<"error:create_http", "error:create_body">>
                        ELSE Append(log, "error:create_http")
                   ELSE IF status = 201
                   THEN log \o <<"info:please_wait", "info:report_created">>
                   ELSE log
    /\ pc' = "after_create"
    /\ UNCHANGED <<args, project, project_id, version, reports, latest_report,
                   sbom_report_file, archiveExists, archiveBody, fs,
                   extractResult, exitStatus, unhandled>>

\* download_latest_sbom_report (with get_sbom_report_list) as called from main()
DownloadLatest ==
    /\ AtDownloadBranch
    /\ args.download_report
    /\ \E listStatus \in ListStatuses :
         LET listReq == Request("report_list", version.id, listStatus)
         IN IF listStatus = NetErr \/ RaisesHTTPError(listStatus)
            THEN /\ requests' = Append(requests, listReq)
                 /\ response' = [status |-> listStatus, items |-> <<>>]
                 /\ Crash
                 /\ UNCHANGED <<reports, latest_report, sbom_report_file,
                                archiveExists, archiveBody, log>>
            ELSE \E rs \in SeqsUpTo(Reports, MaxReports) :
                 LET latest == LatestReport(rs)
                 IN /\ reports' = rs
                    /\ pc' = "downloaded"
                    /\ UNCHANGED <<exitStatus, unhandled>>
                    /\ IF rs = <<>>
                       THEN /\ requests' = Append(requests, listReq)
                            /\ response' = [status |-> listStatus, items |-> rs]
                            /\ log' = log \o <<"info:report_list", "error:no_reports">>
                            /\ UNCHANGED <<latest_report, sbom_report_file,
                                           archiveExists, archiveBody>>
                       ELSE IF latest.empty
                       THEN /\ requests' = Append(requests, listReq)
                            /\ response' = [status |-> listStatus, items |-> rs]
                            /\ latest_report' = latest
                            /\ log' = log \o <<"info:report_list", "error:no_createdAt">>
                            /\ UNCHANGED <<sbom_report_file, archiveExists, archiveBody>>
                       ELSE IF latest.id = ""
                       THEN /\ requests' = Append(requests, listReq)
                            /\ response' = [status |-> listStatus, items |-> rs]
                            /\ latest_report' = latest
                            /\ log' = log \o <<"info:report_list", "error:no_report_id">>
                            /\ UNCHANGED <<sbom_report_file, archiveExists, archiveBody>>
                       ELSE \E status \in DownloadStatuses :
                            /\ requests' = requests \o
                                  <<listReq, Request("download", version.id, status)>>
                            /\ latest_report' = latest
                            /\ IF status = NetErr \/ RaisesHTTPError(status)
                               THEN /\ response' = [status |-> status, items |-> <<>>]
                                    /\ log' = log \o <<"info:report_list",
                                                       "info:latest_found", "error:download">>
                                    /\ UNCHANGED <<sbom_report_file, archiveExists,
                                                   archiveBody>>
                               ELSE \E body \in MainBodies :
                                    /\ response' = [status |-> status, items |-> <<body>>]
                                    /\ archiveExists' = TRUE
                                    /\ archiveBody' = body
                                    /\ sbom_report_file' = "sbom_" \o latest.fileName
                                    /\ log' = log \o <<"info:report_list",
                                                       "info:latest_found", "info:downloaded">>
    /\ UNCHANGED <<args, project, project_id, version, fs, extractResult>>

\* extract_and_flatten(sbom_report_file) as called from main()
Extract ==
    /\ pc = "downloaded"
    /\ LET r == extract_and_flatten(fs, sbom_report_file, archiveExists, archiveBody)
       IN /\ fs' = r.fs
          /\ extractResult' = r.outcome
    /\ pc' = "extracted"
    /\ UNCHANGED <<args, response, project, project_id, version, reports,
                   latest_report, sbom_report_file, archiveExists, archiveBody,
                   requests, log, exitStatus, unhandled>>

\* os.remove that leaves the file in place
OsRemove_keep(path, exists) ==
    IF path = None \/ ~exists
    THEN [ok |-> FALSE, exists |-> exists]
    ELSE [ok |-> TRUE, exists |-> exists]

\* os.remove(path): TypeError for None, FileNotFoundError for a missing file
OsRemove(path, exists) ==
    IF path = None \/ ~exists
    THEN [ok |-> FALSE, exists |-> exists]
    ELSE [ok |-> TRUE, exists |-> FALSE]

\* os.remove(sbom_report_file), the last statement of main()
Remove ==
    /\ pc = "extracted"
    /\ LET r == OsRemove(sbom_report_file, archiveExists)
       IN /\ archiveExists' = r.exists
          /\ IF r.ok THEN Finish ELSE Crash
    /\ UNCHANGED <<args, response, project, project_id, version, reports,
                   latest_report, sbom_report_file, archiveBody, fs,
                   extractResult, requests, log>>

\* main() returns without the download branch
MainReturn ==
    /\ AtDownloadBranch
    /\ ~args.download_report
    /\ Finish
    /\ UNCHANGED <<args, response, project, project_id, version, reports,
                   latest_report, sbom_report_file, archiveExists, archiveBody,
                   fs, extractResult, requests, log>>

Next ==
    \/ Connect
    \/ CreateProject
    \/ GetProject
    \/ GetVersion
    \/ CreateReport
    \/ DownloadLatest
    \/ Extract
    \/ Remove
    \/ MainReturn

Spec == Init /\ [][Next]_vars

(***************************************************************************)
(* extract_and_flatten on its own: any bounded archive, or a file that is  *)
(* not an archive, extracted into a directory that exists or not.          *)
(***************************************************************************)
FlattenBodies == {EmptyBody, GarbageBody} \cup {ZipBody(a) : a \in Archives}

InitFlatten ==
    /\ pc = "flatten_call"
    /\ args = [project_name |-> "Demo", create_project |-> FALSE, version |-> "",
               create_report |-> FALSE, download_report |-> FALSE]
    /\ response = NoResponse
    /\ project = NoProject
    /\ project_id = None
    /\ version = NoVersion
    /\ reports = <<>>
    /\ latest_report = NoReport
    /\ sbom_report_file = "archive.zip"
    /\ archiveExists = TRUE
    /\ archiveBody \in FlattenBodies
    /\ fs \in {EmptyFs, RootFs}
    /\ extractResult = None
    /\ requests = <<>>
    /\ log = <<>>
    /\ exitStatus = Running
    /\ unhandled = FALSE

FlattenCall ==
    /\ pc = "flatten_call"
    /\ LET r == extract_and_flatten(fs, sbom_report_file, archiveExists, archiveBody)
       IN /\ fs' = r.fs
          /\ extractResult' = r.outcome
    /\ pc' = "flatten_return"
    /\ UNCHANGED <<args, response, project, project_id, version, reports,
                   latest_report, sbom_report_file, archiveExists, archiveBody,
                   requests, log, exitStatus, unhandled>>

NextFlatten == FlattenCall

SpecFlatten == InitFlatten /\ [][NextFlatten]_vars

(***************************************************************************)
(* Vocabulary of the properties.                                           *)
(***************************************************************************)
ReportKinds == {"create_report", "report_list", "download"}
Is2xx(status) == status >= 200 /\ status < 300
Logged(msg) == \E k \in 1..Len(log) : log[k] = msg
Terminated == exitStatus # Running
LastRequestIs(kind) == requests # <<>> /\ requests[Len(requests)].kind = kind
HasName(versions, name) == \E i \in 1..Len(versions) : versions[i].versionName = name
FirstNamed(versions, name) ==
    versions[CHOOSE i \in 1..Len(versions) :
                /\ versions[i].versionName = name
                /\ \A j \in 1..(i - 1) : versions[j].versionName # name]
FileEntries(a) == {i \in 1..Len(a) : ~a[i].isDir}
NoReportActivity ==
    /\ \A i \in 1..Len(requests) : requests[i].kind \notin ReportKinds
    /\ ~archiveExists
    /\ fs = RootFs

\* C1: whenever create_sbom_report received a non-2xx response, the error is
\* logged and no report-list and no download request follows it.
C1_NoDiscoveryAfterFailedCreate ==
    \A i \in 1..Len(requests) :
       (/\ requests[i].kind = "create_report"
        /\ requests[i].status # NetErr
        /\ ~Is2xx(requests[i].status))
       => /\ Logged("error:create_http")
          /\ \A j \in (i + 1)..Len(requests) :
                requests[j].kind \notin {"report_list", "download"}

\* C2: once the version is resolved the process ends with exit status 0 and
\* without an unhandled exception; exit status 1 only comes from a fatal
\* resolution failure.
C2_ReportStepsNeverCrash ==
    /\ (version # NoVersion /\ Terminated) => (exitStatus = 0 /\ ~unhandled)
    /\ (project # NoProject /\ exitStatus = 1) => (~unhandled /\ version = NoVersion)

\* C3: after extract_and_flatten on a valid archive the destination holds
\* exactly one regular file per distinct base name of the file entries, at the
\* top level, and nothing else (no subdirectory, no nested name).
C3_DestinationIsFlat ==
    (pc = "flatten_return" /\ archiveBody.kind = "zip")
    => LET a == archiveBody.entries
       IN /\ DOMAIN fs \ {<<>>} = {<<Basename(a[i])>> : i \in FileEntries(a)}
          /\ \A p \in DOMAIN fs \ {<<>>} : fs[p] # "DIR"

\* C4: a download answered with a 2xx status and an empty body yields no
\* file name (None) to the caller.
C4_EmptyBodyIsFailedDownload ==
    (/\ pc = "downloaded"
     /\ LastRequestIs("download")
     /\ Is2xx(response.status)
     /\ response.items = <<EmptyBody>>)
    => sbom_report_file = None

\* C5: with an empty report list, or reports that carry no createdAt, the
\* discovery step logs an error and issues no download request; otherwise the
\* chosen report has the maximum createdAt of the list.
C5_DiscoveryNeedsTimestamp ==
    pc = "downloaded"
    => IF reports = <<>> \/ \A i \in 1..Len(reports) : reports[i].createdAt = 0
       THEN /\ Logged("error:no_reports") \/ Logged("error:no_createdAt")
            /\ \A i \in 1..Len(requests) : requests[i].kind # "download"
       ELSE \A i \in 1..Len(reports) : reports[i].createdAt <= latest_report.createdAt

C6_Resolved ==
    (LastRequestIs("versions") /\ args.version # "")
    => IF HasName(response.items, args.version)
       THEN /\ pc \in {"got_version", "done"}
            /\ exitStatus # 1
            /\ version = [id |-> FirstNamed(response.items, args.version).id,
                          versionName |-> args.version]
       ELSE /\ pc = "exited"
            /\ exitStatus = 1
            /\ version = NoVersion
            /\ NoReportActivity
C6_VersionExit == pc = "exited" /\ LastRequestIs("versions")
\* C6: with a version name requested, get_version returns the id and name of
\* the version of exactly that name when the list has one; otherwise the
\* process ends with exit status 1, having made no report request and written
\* no file, and takes no step afterwards.
C6_ExactVersionOrExit ==
    /\ []C6_Resolved
    /\ [][~C6_VersionExit]_vars
C6_Witness ==
    /\ C6_VersionExit
    /\ args.version # ""
    /\ response.items # <<>>
    /\ exitStatus = 1

\* C7: get_project returns only a candidate whose name equals the queried name;
\* without such a candidate the process ends with exit status 1.
C7_ExactProjectOrExit ==
    /\ project # NoProject => project.name = args.project_name
    /\ LastRequestIs("projects")
       => IF \E i \in 1..Len(response.items) : response.items[i].name = args.project_name
          THEN /\ pc = "got_project"
               /\ \E i \in 1..Len(response.items) : response.items[i] = project
               /\ project_id = project.id
          ELSE /\ pc = "exited"
               /\ exitStatus = 1
               /\ project = NoProject
C7_Witness ==
    /\ LastRequestIs("projects")
    /\ pc = "got_project"
    /\ Len(response.items) = 2
    /\ response.items[1].name # args.project_name
    /\ project = response.items[2]

C8_FirstChosen ==
    /\ (LastRequestIs("versions") /\ args.version = "" /\ response.items # <<>>)
       => /\ pc \in {"got_version", "done"}
          /\ exitStatus # 1
          /\ version = [id |-> response.items[1].id,
                        versionName |-> response.items[1].versionName]
    /\ \A i \in 1..Len(requests) :
          requests[i].kind \in ReportKinds => requests[i].version_id = version.id
C9_LastOneWins ==
    (/\ pc = "flatten_return"
     /\ archiveBody.kind = "zip"
     /\ Len(archiveBody.entries) = 2
     /\ FileEntries(archiveBody.entries) = {1, 2}
     /\ Basename(archiveBody.entries[1]) = Basename(archiveBody.entries[2])
     /\ archiveBody.entries[1].path # archiveBody.entries[2].path)
    => LET base == Basename(archiveBody.entries[2])
       IN /\ IsFile(fs, <<base>>)
          /\ fs[<<base>>] = archiveBody.entries[2].data
          /\ Cardinality({p \in DOMAIN fs : IsFile(fs, p) /\ p[Len(p)] = base}) = 1

C10_Deleted ==
    (/\ pc = "done"
     /\ args.download_report
     /\ sbom_report_file # None
     /\ extractResult = "ok")
    => ~archiveExists
\* C10: when the download wrote an archive and its extraction succeeded, the
\* archive is gone when main() has ended, and the archive is only ever deleted
\* from the position after extract_and_flatten has returned.
C10_ArchiveDeletedAfterExtraction ==
    /\ []C10_Deleted
    /\ [][(archiveExists /\ ~archiveExists') => pc = "extracted"]_vars
C10_Witness ==
    /\ pc = "done"
    /\ args.download_report
    /\ sbom_report_file # None
    /\ extractResult = "ok"
    /\ IsFile(fs, <<"a.json">>)
    /\ ~archiveExists

====
